---- MODULE Spec2Model ----
(***************************************************************************)
(* GymProxyZmqServer (gym/envs/proxy/server.py): a zmq REP socket served   *)
(* by run_main, and a monitor thread (run_monitor) that reacts to the      *)
(* socket's ACCEPTED / DISCONNECTED events.  Both threads read and write   *)
(* the attributes env, env_name, session_id and op_count without taking    *)
(* rpc_lock, so the two threads interleave between any two accesses to     *)
(* these attributes: a step of the model is one access to a shared         *)
(* attribute together with the thread-local statements around it.          *)
(*                                                                         *)
(* GymProxyClient (gym/envs/proxy/client.py): a zmq REQ socket driven by    *)
(* GymProxyClientSocket.rpc, one blocking call at a time.  The client is   *)
(* run against any peer (ClientSpec) and against the server (LiveSpec).    *)
(***************************************************************************)
EXTENDS Integers, Sequences, FiniteSets, TLC

\* ---------------------------------------------------------------- bounds
MaxRequests == 3     \* requests the REP socket delivers in one behaviour
MaxEvents == 4       \* connects and disconnects the transport produces
MaxCalls == 4        \* rpc calls one client makes in one behaviour

\* ------------------------------------------------------- values of Python
None == 0            \* Python None (self.env = None, self.env_name = None)
Unset == -1          \* an attribute __init__ never assigns / a missing dict key

ToyName == 1         \* an env_name make_env knows
BadName == 2         \* an env_name make_env raises on

Methods == {"step", "reset", "render", "close"}

\* what recv_multipart can hand to handle_msg, when `issued` cookies exist: the
\* session_id of a request is absent, null, or a cookie some setup has returned
Requests(issued) ==
    LET Sids == {Unset, None} \cup (1..issued) IN
    {[malformed |-> TRUE, method |-> "none", session_id |-> Unset, env_name |-> Unset]}
    \cup {[malformed |-> FALSE, method |-> m, session_id |-> s, env_name |-> Unset] :
            m \in Methods, s \in Sids}
    \cup {[malformed |-> FALSE, method |-> "setup", session_id |-> Unset, env_name |-> n] :
            n \in {Unset, ToyName, BadName}}
    \cup {[malformed |-> FALSE, method |-> "bogus", session_id |-> Unset, env_name |-> Unset]}

NoRequest == [malformed |-> FALSE, method |-> "none", session_id |-> Unset, env_name |-> Unset]

\* Python values that travel in a reply
PyNone == [t |-> "None"]
PyStr(s) == [t |-> "str", v |-> s]
PyDict(sid) == [t |-> "dict", session_id |-> sid]

NoReply == [result |-> PyNone, error |-> PyNone, sent |-> FALSE]

VARIABLES
    env,          \* self.env: None or the id of an environment make_env returned
    env_name,     \* self.env_name
    session_id,   \* self.session_id: Unset until handle_setup assigns it
    op_count,     \* self.op_count: Unset until opened() assigns it, then 0: the number
                  \* it holds is read by the progress log only and is not kept
    pc,           \* position of the run_main thread
    rx,           \* the request handle_msg is working on
    tx,           \* the last reply handed to send_multipart
    nrecv,        \* requests received by run_main
    nsent,        \* replies sent by run_main
    mpc,          \* position of the run_monitor thread
    monq,         \* monitor events the socket has queued for run_monitor
    conns,        \* connections currently open on the bound socket
    nevents,      \* connects and disconnects so far
    nenvs,        \* environments make_env has returned so far
    ncookies,     \* cookies mk_random_cookie has returned so far
    closes,       \* closes[e]: how often close() was invoked on environment e
    inCall,       \* the environment whose step/reset/render is executing, or None
    calls,        \* the environment functions invoked for the current request
    pre,          \* Session State when the current request was received
    monDuring,    \* opened()/closed() took a step since the current request was received
    closedDuring, \* closed() took a step since the current request was received
    raised,       \* the environment raised during the current request
    wrote,        \* run_main assigned env, env_name or session_id during the current request
    heldO,        \* Session State a successful setup established with the monitor quiet,
                  \* until a close request is received or closed() takes a step
    heldA,        \* the same, also dropped when opened() takes a step
    was,          \* heldO, heldA, dead and "the previous request was a step on an active
                  \* session during which the environment raised", when the current
                  \* request was received
    dead,         \* the session session_id names was destroyed: its close request
                  \* succeeded, or closed() ran from start to end without a step of run_main
    mon0,         \* the environment an active session held when the monitor took a
                  \* DISCONNECTED event with run_main idle and close() not yet invoked on it
    mainDuring,   \* run_main took a step since the monitor took its last event
    reclaimed,    \* the environments mon0 of the closed() calls that ran to their end
                  \* without a step of run_main
    cpc,          \* position of the client: "new" before __init__ calls rpc, "wait"
                  \* inside recv_multipart, "idle" between calls, "dead" once __init__
                  \* raised
    cinit,        \* the client is still inside GymProxyClient.__init__
    cop,          \* the method of the client's current (or last) rpc call
    csession,     \* the client's self.session_id: Unset until __init__ stores it
    creq,         \* the request the client handed to send_multipart
    csends,       \* send_multipart calls the client made
    crecvs,       \* recv_multipart calls of the client that returned
    crpc,         \* how the client's last rpc call ended
    cout          \* how the client's last _step / _reset / _render ended

srv == <<env, env_name, session_id, op_count>>
mainv == <<pc, rx, tx, nrecv, nsent>>
monv == <<mpc, monq>>
netv == <<conns, nevents>>
envv == <<nenvs, ncookies, closes, inCall, calls>>
histv == <<pre, monDuring, closedDuring, raised, wrote, heldO, heldA, was, dead,
           mon0, mainDuring, reclaimed>>
cliv == <<cpc, cinit, cop, csession, creq, csends, crecvs, crpc, cout>>
vars == <<srv, mainv, monv, netv, envv, histv, cliv>>

SessionState == [env_name |-> env_name, env |-> env, session_id |-> session_id]
NoSession == [env_name |-> None, env |-> None, session_id |-> Unset]
NoWas == [heldO |-> NoSession, heldA |-> NoSession, dead |-> FALSE, afterRaise |-> FALSE]

\* how a call of the client ends: it returns a value or raises an exception
Returns(value) == [kind |-> "return", value |-> value]
Raises(message) == [kind |-> "raise", value |-> PyStr(message)]
NoOutcome == [kind |-> "none", value |-> PyNone]

Init ==
    /\ env = None
    /\ env_name = None
    /\ session_id = Unset
    /\ op_count = Unset
    /\ pc = "recv"
    /\ rx = NoRequest
    /\ tx = NoReply
    /\ nrecv = 0
    /\ nsent = 0
    /\ mpc = "mon_recv"
    /\ monq = <<>>
    /\ conns = 0
    /\ nevents = 0
    /\ nenvs = 0
    /\ ncookies = 0
    /\ closes = <<>>
    /\ inCall = None
    /\ calls = {}
    /\ pre = NoSession
    /\ monDuring = FALSE
    /\ closedDuring = FALSE
    /\ raised = FALSE
    /\ wrote = FALSE
    /\ heldO = NoSession
    /\ heldA = NoSession
    /\ was = NoWas
    /\ dead = FALSE
    /\ mon0 = None
    /\ mainDuring = FALSE
    /\ reclaimed = {}
    /\ cpc = "new"
    /\ cinit = TRUE
    /\ cop = "none"
    /\ csession = Unset
    /\ creq = NoRequest
    /\ csends = 0
    /\ crecvs = 0
    /\ crpc = NoOutcome
    /\ cout = NoOutcome

\* ------------------------------------------------------------ the transport
\* A client connects to the bound socket: the socket queues EVENT_ACCEPTED.
Connect ==
    /\ nevents < MaxEvents
    /\ conns' = conns + 1
    /\ nevents' = nevents + 1
    /\ monq' = Append(monq, "ACCEPTED")
    /\ UNCHANGED <<srv, mainv, mpc, envv, histv, cliv>>

\* A connected client goes away: the socket queues EVENT_DISCONNECTED.
Disconnect ==
    /\ nevents < MaxEvents
    /\ conns > 0
    /\ conns' = conns - 1
    /\ nevents' = nevents + 1
    /\ monq' = Append(monq, "DISCONNECTED")
    /\ UNCHANGED <<srv, mainv, mpc, envv, histv, cliv>>

\* ------------------------------------------------------- the monitor thread
\* bookkeeping of a step of opened() / closed()
LifecycleStep(isClosed) ==
    /\ monDuring' = (monDuring \/ rx # NoRequest)
    /\ closedDuring' = (closedDuring \/ (isClosed /\ rx # NoRequest))
    /\ heldA' = NoSession
    /\ heldO' = IF isClosed THEN NoSession ELSE heldO
    /\ UNCHANGED <<pre, raised, wrote, was, cliv>>

EnvCloses(e) == IF e = None THEN 0 ELSE closes[e]

\* run_monitor takes EVENT_ACCEPTED; opened(): self.env_name = None
OpenedName ==
    /\ mpc = "mon_recv"
    /\ monq # <<>>
    /\ Head(monq) = "ACCEPTED"
    /\ monq' = Tail(monq)
    /\ env_name' = None
    /\ mpc' = "opened_count"
    /\ mon0' = None
    /\ mainDuring' = FALSE
    /\ LifecycleStep(FALSE)
    /\ UNCHANGED <<env, session_id, op_count, mainv, netv, envv, dead, reclaimed>>

\* opened(): self.op_count = 0
OpenedCount ==
    /\ mpc = "opened_count"
    /\ op_count' = 0
    /\ mpc' = "mon_recv"
    /\ LifecycleStep(FALSE)
    /\ UNCHANGED <<env, env_name, session_id, mainv, monq, netv, envv, dead,
                   mon0, mainDuring, reclaimed>>

\* run_monitor takes EVENT_DISCONNECTED; closed(): self.env_name = None
ClosedName ==
    /\ mpc = "mon_recv"
    /\ monq # <<>>
    /\ Head(monq) = "DISCONNECTED"
    /\ monq' = Tail(monq)
    /\ env_name' = None
    /\ mpc' = "closed_test"
    /\ mon0' = IF pc = "recv" /\ env_name # None /\ env # None /\ EnvCloses(env) = 0
               THEN env ELSE None
    /\ mainDuring' = FALSE
    /\ LifecycleStep(TRUE)
    /\ UNCHANGED <<env, session_id, op_count, mainv, netv, envv, dead, reclaimed>>

\* closed(): if self.env is not None:
ClosedTest ==
    /\ mpc = "closed_test"
    /\ mpc' = IF env # None THEN "closed_call" ELSE "closed_clear"
    /\ LifecycleStep(TRUE)
    /\ UNCHANGED <<srv, mainv, monq, netv, envv, dead, mon0, mainDuring, reclaimed>>

\* closed(): self.env.close() -- self.env is read again; if handle_close has
\* cleared it meanwhile the AttributeError ends the monitor thread
ClosedCall ==
    /\ mpc = "closed_call"
    /\ IF env = None
       THEN /\ mpc' = "mon_crashed"
            /\ UNCHANGED closes
       ELSE /\ mpc' = "closed_clear"
            /\ closes' = [closes EXCEPT ![env] = @ + 1]
    /\ LifecycleStep(TRUE)
    /\ UNCHANGED <<srv, mainv, monq, netv, nenvs, ncookies, inCall, calls, dead,
                   mon0, mainDuring, reclaimed>>

\* mutant: closed() without its last statement
ClosedClear_keeps_env ==
    /\ mpc = "closed_clear"
    /\ mpc' = "mon_recv"
    /\ dead' = (dead \/ (session_id # Unset /\ ~mainDuring))
    /\ reclaimed' = IF mon0 # None /\ ~mainDuring THEN reclaimed \cup {mon0} ELSE reclaimed
    /\ LifecycleStep(TRUE)
    /\ UNCHANGED <<srv, mainv, monq, netv, envv, mon0, mainDuring>>

\* closed(): self.env = None
ClosedClear ==
    /\ mpc = "closed_clear"
    /\ env' = None
    /\ mpc' = "mon_recv"
    /\ dead' = (dead \/ (session_id # Unset /\ ~mainDuring))
    /\ reclaimed' = IF mon0 # None /\ ~mainDuring THEN reclaimed \cup {mon0} ELSE reclaimed
    /\ LifecycleStep(TRUE)
    /\ UNCHANGED <<env_name, session_id, op_count, mainv, monq, netv, envv,
                   mon0, mainDuring>>

Monitor ==
    \/ OpenedName
    \/ OpenedCount
    \/ ClosedName
    \/ ClosedTest
    \/ ClosedCall
    \/ ClosedClear

\* ---------------------------------------------------------- the main thread
\* bookkeeping of a step of run_main
MainStep ==
    /\ mainDuring' = TRUE
    /\ UNCHANGED <<pre, monDuring, closedDuring, was, mon0, reclaimed, cliv>>

Goto(label) ==
    /\ pc' = label
    /\ UNCHANGED <<rx, tx, nrecv, nsent>>

\* handle_msg.reply: the envelope given to send_multipart
reply(rpc_result, rpc_error) ==
    [result |-> rpc_result, error |-> rpc_error, sent |-> TRUE]

\* reply(...), after which run_main loops back to recv_multipart
Send(envelope) ==
    /\ tx' = envelope
    /\ nsent' = nsent + 1
    /\ pc' = "recv"
    /\ UNCHANGED <<rx, nrecv>>

\* str(ex_type) + ': ' + str(ex_value)
ExcText(type, value) == "<class '" \o type \o "'>: " \o value

\* mutant: the error reply also carries a result
except_reply_with_result(type, value) ==
    reply(PyDict(session_id), PyStr(ExcText(type, value)))

\* the except clause of handle_msg: reply(None, str(ex_type) + ': ' + str(ex_value))
except_reply(type, value) == reply(PyNone, PyStr(ExcText(type, value)))

\* an exception raised inside the try block of handle_msg
Raise(type, value) == Send(except_reply(type, value))

\* the dict a handler returns, sent by reply(self.handle_...(rpc_params))
handler_reply == reply(PyDict(session_id), PyNone)

\* zmq_serialize.load_msg fails on frames it cannot decode
load_msg_raises(frames) == frames.malformed

\* run_main: recv_multipart returns request r; handle_msg decodes it with
\* zmq_serialize.load_msg, outside the try block
RecvRequest(r) ==
    /\ pc = "recv"
    /\ nevents > 0
    /\ rx' = r
    /\ pc' = IF load_msg_raises(r) THEN "crashed" ELSE "count"
    /\ IF r.method = "close"
       THEN heldO' = NoSession /\ heldA' = NoSession
       ELSE UNCHANGED <<heldO, heldA>>
    /\ nrecv' = nrecv + 1
    /\ tx' = NoReply
    /\ pre' = SessionState
    /\ was' = [heldO |-> heldO, heldA |-> heldA, dead |-> dead,
                afterRaise |-> /\ rx.method = "step"
                               /\ raised
                               /\ ~monDuring
                               /\ pre.env_name # None
                               /\ pre.env # None]
    /\ monDuring' = FALSE
    /\ closedDuring' = FALSE
    /\ raised' = FALSE
    /\ wrote' = FALSE
    /\ calls' = {}
    /\ mainDuring' = TRUE
    /\ UNCHANGED <<srv, nsent, monv, netv, nenvs, ncookies, closes, inCall, dead,
                   mon0, reclaimed, cliv>>

\* the next request is whatever some client put on the socket
Recv ==
    /\ nrecv < MaxRequests
    /\ \E r \in Requests(ncookies) : RecvRequest(r)

NoExc == <<"", "">>

\* mutant: the check only looks for the key and compares nothing
session_check_presence(params) ==
    IF params.session_id = Unset THEN <<"KeyError", "session_id">> ELSE NoExc

\* mutant: == where the handlers have !=
session_check_inverted(params) ==
    IF params.session_id = Unset THEN <<"KeyError", "session_id">>
    ELSE IF session_id = Unset
         THEN <<"AttributeError", "object has no attribute session_id">>
    ELSE IF params.session_id = session_id THEN <<"Exception", "Wrong session id">>
    ELSE NoExc

\* if params['session_id'] != self.session_id: raise Exception('Wrong session id')
session_check(params) ==
    IF params.session_id = Unset THEN <<"KeyError", "session_id">>
    ELSE IF session_id = Unset
         THEN <<"AttributeError", "object has no attribute session_id">>
    ELSE IF params.session_id # session_id THEN <<"Exception", "Wrong session id">>
    ELSE NoExc

\* handle_msg: self.op_count += 1 outside the try block (an AttributeError
\* that ends run_main while op_count is unassigned), then the if / elif
\* chain on rpc_method and, for step / reset / render / close, the handler's
\* identity check (self.session_id is assigned by run_main only)
HandleMsg ==
    /\ pc = "count"
    /\ IF op_count = Unset
       THEN Goto("crashed") /\ UNCHANGED op_count
       ELSE /\ UNCHANGED op_count
            /\ CASE rx.method \in Methods ->
                      IF session_check(rx) # NoExc
                      THEN Raise(session_check(rx)[1], session_check(rx)[2])
                      ELSE Goto(IF rx.method = "close" THEN "close_name" ELSE "env_call")
                 [] rx.method = "setup" -> Goto("setup_check")
                 [] OTHER -> Raise("Exception", "unknown method " \o rx.method)
    /\ MainStep
    /\ UNCHANGED <<env, env_name, session_id, monv, netv, envv, raised, wrote, heldO, heldA, dead>>

\* self.env.step(action) / self.env.reset() / self.env.render(mode, close) is entered
EnvCall ==
    /\ pc = "env_call"
    /\ IF env = None
       THEN /\ Raise("AttributeError", "NoneType object has no attribute " \o rx.method)
            /\ UNCHANGED <<inCall, calls>>
       ELSE /\ Goto("in_call")
            /\ inCall' = env
            /\ calls' = calls \cup {rx.method}
    /\ MainStep
    /\ UNCHANGED <<srv, monv, netv, nenvs, ncookies, closes, raised, wrote, heldO, heldA, dead>>

\* mutant: the environment's exception is not caught and ends run_main
EnvReturn_uncaught ==
    /\ pc = "in_call"
    /\ inCall' = None
    /\ \/ Send(handler_reply) /\ UNCHANGED raised
       \/ Goto("crashed") /\ raised' = TRUE
    /\ MainStep
    /\ UNCHANGED <<srv, monv, netv, nenvs, ncookies, closes, calls, wrote, heldO, heldA, dead>>

\* the environment method returns and the handler's dict is sent, or it raises
EnvReturn ==
    /\ pc = "in_call"
    /\ inCall' = None
    /\ \/ Send(handler_reply) /\ UNCHANGED raised
       \/ Raise("EnvError", "environment failure") /\ raised' = TRUE
    /\ MainStep
    /\ UNCHANGED <<srv, monv, netv, nenvs, ncookies, closes, calls, wrote, heldO, heldA, dead>>

\* mutant: handle_setup without its guard
never_set_up == FALSE

\* handle_setup: if self.env_name is not None: raise Exception('Already set up')
already_set_up == env_name # None

SetupCheck ==
    /\ pc = "setup_check"
    /\ IF already_set_up
       THEN Raise("Exception", "Already set up")
       ELSE Goto("setup_make")
    /\ MainStep
    /\ UNCHANGED <<srv, monv, netv, envv, raised, wrote, heldO, heldA, dead>>

\* make_env raises on a name it does not know
make_env_raises(name) == name # ToyName

\* handle_setup: self.env = self.make_env(params['env_name'])
SetupMake ==
    /\ pc = "setup_make"
    /\ IF rx.env_name = Unset
       THEN /\ Raise("KeyError", "env_name")
            /\ UNCHANGED <<env, nenvs, closes, calls, wrote>>
       ELSE IF make_env_raises(rx.env_name)
       THEN /\ Raise("Error", "unknown environment")
            /\ calls' = calls \cup {"make_env"}
            /\ UNCHANGED <<env, nenvs, closes, wrote>>
       ELSE /\ Goto("setup_name")
            /\ nenvs' = nenvs + 1
            /\ env' = nenvs + 1
            /\ closes' = Append(closes, 0)
            /\ calls' = calls \cup {"make_env"}
            /\ wrote' = TRUE
    /\ MainStep
    /\ UNCHANGED <<env_name, session_id, op_count, monv, netv, ncookies, inCall,
                   raised, heldO, heldA, dead>>

\* handle_setup: self.env_name = params['env_name']
SetupName ==
    /\ pc = "setup_name"
    /\ env_name' = rx.env_name
    /\ wrote' = TRUE
    /\ Goto("setup_ret")
    /\ MainStep
    /\ UNCHANGED <<env, session_id, op_count, monv, netv, envv, raised, heldO, heldA, dead>>

\* handle_setup: self.session_id = zmq_serialize.mk_random_cookie(), a cookie
\* no earlier setup returned, then return {'observation_space':
\* self.env.observation_space, ...}: self.env is read again and may have been
\* cleared by closed()
SetupRet ==
    /\ pc = "setup_ret"
    /\ ncookies' = ncookies + 1
    /\ session_id' = ncookies + 1
    /\ wrote' = TRUE
    /\ IF env = None
       THEN /\ Raise("AttributeError", "NoneType object has no attribute observation_space")
            /\ UNCHANGED <<heldO, heldA>>
       ELSE /\ Send(reply(PyDict(ncookies + 1), PyNone))
            /\ heldO' = IF monDuring THEN NoSession
                        ELSE [SessionState EXCEPT !.session_id = ncookies + 1]
            /\ heldA' = IF monDuring THEN NoSession
                        ELSE [SessionState EXCEPT !.session_id = ncookies + 1]
    /\ dead' = FALSE
    /\ MainStep
    /\ UNCHANGED <<env, env_name, op_count, monv, netv, nenvs, closes, inCall, calls, raised>>

\* handle_close: self.env_name = None
CloseName ==
    /\ pc = "close_name"
    /\ env_name' = None
    /\ wrote' = TRUE
    /\ Goto("close_test")
    /\ MainStep
    /\ UNCHANGED <<env, session_id, op_count, monv, netv, envv, raised, heldO, heldA, dead>>

\* handle_close: if self.env:
CloseTest ==
    /\ pc = "close_test"
    /\ Goto(IF env # None THEN "close_call" ELSE "close_clear")
    /\ MainStep
    /\ UNCHANGED <<srv, monv, netv, envv, raised, wrote, heldO, heldA, dead>>

\* handle_close: self.env.close() -- self.env is read again
CloseCall ==
    /\ pc = "close_call"
    /\ IF env = None
       THEN /\ Raise("AttributeError", "NoneType object has no attribute close")
            /\ UNCHANGED <<closes, calls>>
       ELSE /\ Goto("close_clear")
            /\ closes' = [closes EXCEPT ![env] = @ + 1]
            /\ calls' = calls \cup {"close"}
    /\ MainStep
    /\ UNCHANGED <<srv, monv, netv, nenvs, ncookies, inCall, raised, wrote, heldO, heldA, dead>>

\* handle_close: self.env = None, then return {'session_id': self.session_id}
CloseClear ==
    /\ pc = "close_clear"
    /\ env' = None
    /\ wrote' = TRUE
    /\ dead' = TRUE
    /\ Send(handler_reply)
    /\ MainStep
    /\ UNCHANGED <<env_name, session_id, op_count, monv, netv, envv, raised, heldO, heldA>>

Main ==
    \/ Recv
    \/ HandleMsg
    \/ EnvCall
    \/ EnvReturn
    \/ SetupCheck
    \/ SetupMake
    \/ SetupName
    \/ SetupRet
    \/ CloseName
    \/ CloseTest
    \/ CloseCall
    \/ CloseClear

Next ==
    \/ Connect
    \/ Disconnect
    \/ Monitor
    \/ Main

Spec == Init /\ [][Next]_vars

\* ------------------------------------------------------------- the client
CallMethods == {"step", "reset", "render"}

\* GymProxyClientSocket.__init__: self.sock.connect(url); the bound socket
\* accepts the connection and queues EVENT_ACCEPTED
ClientConnect ==
    /\ cpc = "new"
    /\ cpc' = "connected"
    /\ conns' = conns + 1
    /\ nevents' = nevents + 1
    /\ monq' = Append(monq, "ACCEPTED")
    /\ UNCHANGED <<cinit, cop, csession, creq, csends, crecvs, crpc, cout>>
    /\ UNCHANGED <<srv, mainv, mpc, envv, histv>>

\* rpc, to the end of send_multipart: dump_msg({'method': method, 'params':
\* params}) goes out and the client blocks in recv_multipart
rpc_send(method, params) ==
    /\ creq' = [malformed |-> FALSE, method |-> method,
                session_id |-> params.session_id, env_name |-> params.env_name]
    /\ csends' = csends + 1
    /\ cop' = method
    /\ cpc' = "wait"

\* mutant: rpc returns the result whatever the reply's error is
rpc_outcome_ignores_error(rpc_ans) == Returns(rpc_ans.result)

\* rpc, after load_msg: if rpc_ans['error'] is not None: raise
\* Exception(rpc_ans['error']); return rpc_ans['result']
rpc_outcome(rpc_ans) ==
    IF rpc_ans.error # PyNone THEN Raises(rpc_ans.error.v) ELSE Returns(rpc_ans.result)

\* mutant: the reply's session_id is not compared
reply_check_skipped(ret) == Returns(ret)

\* _step / _reset / _render, after rpc returned ret: if ret['session_id'] !=
\* self.session_id: raise Exception('Wrong session id'); return ret[...]
reply_check(ret) ==
    IF ret = PyNone THEN Raises("NoneType object is not subscriptable")
    ELSE IF ret.session_id = Unset THEN Raises("session_id")
    ELSE IF ret.session_id # csession THEN Raises("Wrong session id")
    ELSE Returns(ret)

\* GymProxyClient.__init__: setup_result = self.proxy.rpc('setup', kwargs)
ClientSetup ==
    /\ cpc = "connected"
    /\ \E n \in {Unset, ToyName, BadName} :
            rpc_send("setup", [session_id |-> Unset, env_name |-> n])
    /\ UNCHANGED <<cinit, csession, crecvs, crpc, cout>>
    /\ UNCHANGED <<srv, mainv, monv, netv, envv, histv>>

\* _step / _reset / _render call self.proxy.rpc with the stored session_id;
\* __init__ ends with self.reset()
ClientCall ==
    /\ cpc = "idle"
    /\ csends < MaxCalls
    /\ \E m \in (IF cinit THEN {"reset"} ELSE CallMethods) :
            rpc_send(m, [session_id |-> csession, env_name |-> Unset])
    /\ UNCHANGED <<cinit, csession, crecvs, crpc, cout>>
    /\ UNCHANGED <<srv, mainv, monv, netv, envv, histv>>

\* recv_multipart returns the reply, rpc returns or raises, and the caller
\* goes on: __init__ stores setup_result['session_id'] (an exception ends
\* __init__ and there is no client), _step / _reset / _render compare the
\* session_id of what rpc returned
RpcReturn ==
    /\ cpc = "wait"
    /\ tx.sent
    /\ nsent = csends
    /\ crecvs' = crecvs + 1
    /\ crpc' = rpc_outcome(tx)
    /\ IF cop = "setup"
       THEN LET o == rpc_outcome(tx) IN
            IF o.kind = "raise" \/ o.value = PyNone \/ o.value.session_id = Unset
            THEN /\ cpc' = "dead"
                 /\ UNCHANGED <<csession, cout, cinit>>
            ELSE /\ cpc' = "idle"
                 /\ csession' = o.value.session_id
                 /\ UNCHANGED <<cout, cinit>>
       ELSE LET o == IF rpc_outcome(tx).kind = "raise"
                     THEN rpc_outcome(tx)
                     ELSE reply_check(rpc_outcome(tx).value) IN
            /\ cout' = o
            /\ cpc' = IF cinit /\ o.kind = "raise" THEN "dead" ELSE "idle"
            /\ cinit' = (cinit /\ o.kind = "raise")
            /\ UNCHANGED csession
    /\ UNCHANGED <<cop, creq, csends>>
    /\ UNCHANGED <<srv, mainv, monv, netv, envv, histv>>

\* what a peer may put on the socket as a reply: result null or a dict with or
\* without a session_id, error null or a string
Replies ==
    {reply(res, err) : res \in {PyNone} \cup {PyDict(s) : s \in {Unset, 1, 2}},
                       err \in {PyNone, PyStr("failure")}}

\* the peer of the REQ socket takes the request and answers it
PeerReply ==
    /\ cpc = "wait"
    /\ nsent < csends
    /\ rx' = creq
    /\ nrecv' = nrecv + 1
    /\ \E t \in Replies : tx' = t
    /\ nsent' = nsent + 1
    /\ UNCHANGED <<pc, srv, monv, netv, envv, histv, cliv>>

ClientNext ==
    \/ ClientConnect
    \/ ClientSetup
    \/ ClientCall
    \/ RpcReturn
    \/ PeerReply

\* the client against any peer
ClientSpec == Init /\ [][ClientNext]_vars

\* run_main takes the request the client sent
SysRecv ==
    /\ nrecv < csends
    /\ RecvRequest(creq)

LiveMonitor ==
    \/ OpenedName
    \/ OpenedCount

LiveMain ==
    \/ SysRecv
    \/ HandleMsg
    \/ EnvCall
    \/ EnvReturn
    \/ SetupCheck
    \/ SetupMake
    \/ SetupName
    \/ SetupRet

LiveNext ==
    \/ Connect
    \/ ClientConnect
    \/ ClientSetup
    \/ ClientCall
    \/ RpcReturn
    \/ LiveMonitor
    \/ LiveMain

\* the client against the server, its connection staying up (other clients
\* may connect), the three threads scheduled fairly and every environment
\* call returning
LiveSpec ==
    /\ Init
    /\ [][LiveNext]_vars
    /\ WF_vars(LiveMain)
    /\ WF_vars(LiveMonitor)
    /\ WF_vars(RpcReturn)

\* ------------------------------------------------------------------ claims
IsError(t) == t.result = PyNone /\ t.error # PyNone
IsSuccess(t) == t.result # PyNone /\ t.error = PyNone

\* the current request is one the identity check or the dispatch must reject,
\* received with a session set up
Rejected ==
    /\ rx # NoRequest
    /\ ~rx.malformed
    /\ pre.session_id # Unset
    /\ \/ rx.method \in Methods /\ rx.session_id # pre.session_id
       \/ rx.method \notin (Methods \cup {"setup"})

\* C1: with a session set up, a step / reset / render / close request whose
\* session_id differs from the server's, and a request with an unknown method,
\* never gets past the check (no handler body runs, run_main does not stop),
\* is answered by an error reply, invokes no environment function, and run_main
\* assigns none of env_name, env, session_id while handling it (with the monitor
\* quiet they equal what they were when the request was received).
Thm_C1 ==
    Rejected =>
        /\ pc \in {"count", "recv"}
        /\ ~wrote
        /\ calls = {}
        /\ pc = "recv" => (tx.sent /\ IsError(tx))
        /\ ~monDuring => SessionState = pre

Wit_C1 ==
    /\ Rejected
    /\ rx.method = "close"
    /\ rx.session_id # Unset
    /\ pre.env # None
    /\ pre.env_name # None
    /\ tx.sent
    /\ IsError(tx)
    /\ SessionState = pre

\* C2 as claimed: a setup request received while the session a successful setup
\* established is held, with no close request and no step of closed() since
\* that setup was received, gets an error reply, does not call make_env and
\* assigns none of env_name, env and session_id.
Orig_C2 ==
    (tx.sent /\ rx.method = "setup" /\ was.heldO # NoSession /\ ~closedDuring) =>
        /\ IsError(tx)
        /\ "make_env" \notin calls
        /\ ~wrote

\* C2 amended: the same, with no step of opened() either between the receipt of
\* the first setup and the reply to the second; env_name, env and session_id are
\* then as the first setup established them.
Thm_C2 ==
    (tx.sent /\ rx.method = "setup" /\ was.heldA # NoSession /\ ~monDuring) =>
        /\ IsError(tx)
        /\ "make_env" \notin calls
        /\ ~wrote
        /\ SessionState = was.heldA

Wit_C2 ==
    /\ tx.sent
    /\ rx.method = "setup"
    /\ rx.env_name = ToyName
    /\ was.heldA # NoSession
    /\ ~monDuring
    /\ IsError(tx)
    /\ SessionState = was.heldA

\* the current request carries the session_id of the session that was active
\* when it was received
Matching ==
    /\ rx.method \in Methods
    /\ pre.env_name # None
    /\ pre.env # None
    /\ pre.session_id # Unset
    /\ rx.session_id = pre.session_id

\* C3: a step / reset / render / close request carrying the session_id of the
\* active session, with no step of opened() or closed() since it was received
\* and no failure of the environment, is answered (run_main does not stop) and
\* its reply is a success reply carrying that session_id.
Thm_C3 ==
    (Matching /\ ~monDuring /\ ~raised) =>
        /\ pc # "crashed"
        /\ tx.sent => (IsSuccess(tx) /\ tx.result.session_id = rx.session_id)

Wit_C3 ==
    /\ Matching
    /\ rx.method = "render"
    /\ ~monDuring
    /\ tx.sent
    /\ IsSuccess(tx)
    /\ calls = {"render"}

\* C4 as claimed: once the session session_id names has been destroyed (its
\* close request succeeded, or closed() ran to its end), a later step / reset /
\* render / close request carrying that session_id gets an error reply.
Orig_C4 ==
    (tx.sent /\ rx.method \in Methods /\ was.dead /\ rx.session_id = pre.session_id) =>
        IsError(tx)

\* C5 as claimed: when opened() returns, with run_main idle throughout, no
\* session is active and the previous environment is no longer held.
Orig_C5 ==
    [][(mpc = "opened_count" /\ mpc' = "mon_recv" /\ pc = "recv" /\ ~mainDuring) =>
        (env_name' = None /\ env' = None)]_vars

\* C6: when closed() returns for a disconnect that found an active session
\* holding an environment close() had not been invoked on, with run_main idle
\* since, env_name and env are None and close() has been invoked on that
\* environment exactly once; and it stays exactly once whatever follows.
Thm_C6 ==
    /\ (mon0 # None /\ mpc = "mon_recv" /\ ~mainDuring) =>
            (env_name = None /\ env = None /\ closes[mon0] = 1 /\ mon0 \in reclaimed)
    /\ \A e \in reclaimed : closes[e] = 1

\* a later disconnect is being handled after an environment was reclaimed
Wit_C6 ==
    /\ reclaimed # {}
    /\ mon0 = None
    /\ mpc = "closed_clear"
    /\ \A e \in reclaimed : closes[e] = 1

\* C7 as claimed: while run_main waits in recv_multipart every request received
\* has had its reply, inside handle_msg exactly the current one has not, and
\* run_main never stops with a decoded request, whatever its method, unanswered.
Orig_C7 ==
    /\ pc = "recv" => nsent = nrecv
    /\ pc # "recv" => nsent = nrecv - 1
    /\ (rx # NoRequest /\ ~rx.malformed) => pc # "crashed"

\* C8 as claimed: a request whose frames cannot be decoded gets an error reply,
\* leaves Session State alone, and run_main goes on to the next request.
Orig_C8 ==
    (rx # NoRequest /\ rx.malformed) => (pc = "recv" /\ tx.sent /\ IsError(tx) /\ ~wrote)

\* C9: when the environment raises during a step request of an active session,
\* the reply is an error reply, run_main is back at recv_multipart and has
\* assigned none of env_name, env, session_id (with the monitor quiet they are
\* what they were); and a reset request that follows with the same session_id,
\* the monitor quiet and the environment not raising again, gets a success reply.
Thm_C9 ==
    /\ (rx.method = "step" /\ raised) =>
            /\ pc = "recv"
            /\ tx.sent
            /\ IsError(tx)
            /\ ~wrote
            /\ ~monDuring => SessionState = pre
    /\ (was.afterRaise /\ rx.method = "reset" /\ rx.session_id = pre.session_id
            /\ ~monDuring /\ ~raised) =>
            /\ pc # "crashed"
            /\ tx.sent => (IsSuccess(tx) /\ tx.result.session_id = rx.session_id)

Wit_C9 ==
    /\ was.afterRaise
    /\ rx.method = "reset"
    /\ rx.session_id = pre.session_id
    /\ tx.sent
    /\ IsSuccess(tx)
    /\ calls = {"reset"}

\* C10: every reply sent has exactly one of result and error non-null, and a
\* reply that is not an error reply is a success reply.
Thm_C10 ==
    tx.sent =>
        /\ (tx.result = PyNone) # (tx.error = PyNone)
        /\ IsSuccess(tx) \/ IsError(tx)

Wit_C10 ==
    /\ tx.sent
    /\ rx.method = "bogus"
    /\ IsError(tx)
    /\ nsent = MaxRequests

\* C11 as claimed: the error string of an error reply is the message of the
\* failure that caused it and nothing else: a step whose session_id is not the
\* server's is answered with error "Wrong session id", and a step / reset /
\* render during which the environment raised with that failure's message.
Orig_C11 ==
    (tx.sent /\ rx.method \in {"step", "reset", "render"}) =>
        /\ (pre.session_id # Unset /\ rx.session_id \notin {Unset, pre.session_id}) =>
                tx = reply(PyNone, PyStr("Wrong session id"))
        /\ raised => tx = reply(PyNone, PyStr("environment failure"))

\* C12: under ClientSpec, whatever the peer answers, the client's sends and
\* receives alternate starting with a send (a receive has always returned for
\* every send but the one of the call in progress, and the peer never finds
\* more requests than calls were made), and a finished rpc call returned the
\* reply's result if the reply's error was null and raised with the reply's
\* error string otherwise.
Thm_C12 ==
    /\ csends - crecvs \in {0, 1}
    /\ (cpc = "wait") <=> (csends = crecvs + 1)
    /\ nrecv <= csends
    /\ nsent <= nrecv
    /\ (crecvs > 0 /\ cpc # "wait") =>
            /\ tx.error = PyNone => (crpc.kind = "return" /\ crpc.value = tx.result)
            /\ tx.error # PyNone => (crpc.kind = "raise" /\ crpc.value = tx.error)

\* the last of MaxCalls calls raised with the peer's error string
Wit_C12 ==
    /\ csends = MaxCalls
    /\ crecvs = MaxCalls
    /\ cpc = "idle"
    /\ cop = "render"
    /\ tx.error = PyStr("failure")
    /\ crpc = Raises("failure")

\* what C13 says of a finished _step / _reset / _render whose reply was a
\* success reply
Outcome_C13 ==
    (cop \in CallMethods /\ cpc # "wait" /\ IsSuccess(tx)) =>
        IF tx.result.session_id = csession
        THEN cout.kind = "return" /\ cout.value = tx.result
        ELSE cout.kind = "raise" /\ cout.value # tx.result

\* C13: under ClientSpec, a _step / _reset / _render whose success reply carries
\* a session_id other than the stored one raises and hands the caller none of
\* the reply's fields, one whose reply carries the stored session_id returns
\* the reply's fields, and no step of such a call changes the stored session_id.
Thm_C13 ==
    [][Outcome_C13' /\ (cop' \in CallMethods => csession' = csession)]_vars

Wit_C13 ==
    /\ cop = "step"
    /\ cpc = "idle"
    /\ IsSuccess(tx)
    /\ csession # Unset
    /\ tx.result.session_id \notin {Unset, csession}
    /\ cout = Raises("Wrong session id")

\* C14 as claimed: while a step / reset / render handler is between its
\* identity check and the return of its environment call, holding an
\* environment, no step of another thread invokes close() on an environment or
\* sets self.env to None.
Orig_C14 ==
    [][(pc \in {"env_call", "in_call"} /\ pc' = pc /\ env # None) =>
        (env' = env /\ closes' = closes)]_vars

\* the positions of run_main between the check of handle_setup / handle_close
\* and the handler's last assignment to env_name, env or session_id
Critical ==
    {"setup_make", "setup_name", "setup_ret",
     "close_name", "close_test", "close_call", "close_clear"}

\* C15 as claimed: opened() and closed() are excluded while run_main is between
\* the check and the last assignment of handle_setup or handle_close: the
\* monitor takes no step there.
Orig_C15 ==
    [][(pc \in Critical) => (mpc' = mpc)]_vars

\* C16 as claimed: whenever no handler and no lifecycle event is in progress,
\* env_name is None exactly when env is None.
Orig_C16 ==
    (pc = "recv" /\ mpc = "mon_recv") => ((env_name = None) <=> (env = None))

\* C17 as claimed: close() is invoked at most once on every environment make_env
\* returned, and every environment the server no longer holds has had its
\* close() invoked.
Orig_C17 ==
    \A e \in 1..nenvs :
        /\ closes[e] <= 1
        /\ e # env => closes[e] >= 1

\* C18 as claimed: op_count is assigned before handle_msg increments it, and
\* the first request received, if it can be decoded, does not end run_main.
Orig_C18 ==
    /\ pc = "count" => op_count # Unset
    /\ (nrecv = 1 /\ ~rx.malformed) => pc # "crashed"

\* C19 as claimed: a setup request that got past the guard and failed, for a
\* name make_env raises on or for a missing env_name, with the monitor quiet
\* while it was handled, is answered by an error reply and leaves env_name,
\* env and session_id as they were, env_name and env both None.
Orig_C19 ==
    (/\ tx.sent
     /\ rx.method = "setup"
     /\ pre.env_name = None
     /\ ~monDuring
     /\ rx.env_name = Unset \/ make_env_raises(rx.env_name)) =>
        /\ IsError(tx)
        /\ SessionState = pre
        /\ env_name = None
        /\ env = None

\* C20 as claimed: under LiveSpec (the connection stays up, run_main, the
\* monitor and the client are scheduled fairly, every environment call
\* returns) a client blocked in recv_multipart eventually leaves it: every
\* request sent is answered.
Orig_C20 ==
    (cpc = "wait") ~> (cpc # "wait")

====
